---- MODULE Spec2Model ----
(***************************************************************************)
(* LogDrift: a line-at-a-time log classifier.  main() parses the command   *)
(* line, loads a JSON config, applies the CLI overrides, builds an         *)
(* AnomalyDetector and then, for every line of stdin, calls ParseLine,     *)
(* filters the entry with Config.ShouldShow and prints it.                 *)
(*                                                                         *)
(* Go strings are modelled as sequences of one-character strings, so that  *)
(* substring search, case folding and the regular expressions of the code  *)
(* are computed and not assumed.                                           *)
(***************************************************************************)
EXTENDS Integers, Sequences, FiniteSets, TLC

VARIABLES
    pc,         \* position of main(): "cli","special","load","apply","detector","scan","show","done"
    args,       \* the command line given to the process (input, fixed)
    file,       \* the config file on disk (input, fixed)
    stdin,      \* the lines of standard input not yet read
    stdinErr,   \* TRUE when the stream faults after the lines of stdin
    opts,       \* CLIOptions
    cfg,        \* Config
    d,          \* AnomalyDetector
    entry,      \* LogEntry returned by the last ParseLine
    entries,    \* every LogEntry returned so far, in order
    shown,      \* what cfg.ShouldShow returned for entry
    printed,    \* the entries written to stdout, in order
    warned,     \* TRUE once the pattern-compilation warning went to stderr
    stats,      \* <<>>, or <<the counters>> the summary showed
    exitCode    \* the process's exit status, -1 while it runs

vars == <<pc, args, file, stdin, stdinErr, opts, cfg, d, entry, entries, shown,
          printed, warned, stats, exitCode>>

----------------------------------------------------------------------------
(* LogLevel, main.go:15-21 *)
DEBUG == 0
INFO == 1
WARN == 2
ERROR == 3
FATAL == 4

(* score contributions, main.go:105-161 *)
FatalScore == 100
ErrorScore == 50
WarnScore == 20
ErrorPatternScore == 30
SlowPatternScore == 25
SuspiciousPatternScore == 40

(* DefaultConfig().AnomalyThreshold *)
DefaultAnomalyThreshold == 40

----------------------------------------------------------------------------
(* Characters and strings *)

UpperChars == <<"A","B","C","D","E","F","G","H","I","J","K","L","M",
                "N","O","P","Q","R","S","T","U","V","W","X","Y","Z">>
LowerChars == <<"a","b","c","d","e","f","g","h","i","j","k","l","m",
                "n","o","p","q","r","s","t","u","v","w","x","y","z">>
Digits == {"0","1","2","3","4","5","6","7","8","9"}

Range(s) == {s[i] : i \in DOMAIN s}

IsUpper(c) == c \in Range(UpperChars)
IsLower(c) == c \in Range(LowerChars)
IsDigit(c) == c \in Digits

\* \s of Go's regexp (RE2): [\t\n\f\r ]
IsSpace(c) == c \in {" ", "\t", "\n", "\f", "\r"}

\* \w of Go's regexp: [0-9A-Za-z_]
IsWordChar(c) == IsUpper(c) \/ IsLower(c) \/ IsDigit(c) \/ c = "_"

ToLowerChar(c) ==
    IF IsUpper(c) THEN LowerChars[CHOOSE i \in 1..26 : UpperChars[i] = c] ELSE c

ToUpperChar(c) ==
    IF IsLower(c) THEN UpperChars[CHOOSE i \in 1..26 : LowerChars[i] = c] ELSE c

\* strings.ToLower / strings.ToUpper
ToLower(s) == [i \in 1..Len(s) |-> ToLowerChar(s[i])]
ToUpper(s) == [i \in 1..Len(s) |-> ToUpperChar(s[i])]

\* s has sub at position i (1-based)
HasAt(s, i, sub) ==
    /\ i >= 1
    /\ i + Len(sub) - 1 <= Len(s)
    /\ \A k \in 1..Len(sub) : s[i + k - 1] = sub[k]

\* strings.Contains
Contains(s, sub) == \E i \in 1..(Len(s) - Len(sub) + 1) : HasAt(s, i, sub)

\* strings.TrimSpace
TrimSpace(s) ==
    LET keep == {i \in 1..Len(s) : ~IsSpace(s[i])}
    IN  IF keep = {} THEN <<>>
        ELSE LET lo == CHOOSE i \in keep : \A j \in keep : i <= j
                 hi == CHOOSE i \in keep : \A j \in keep : j <= i
             IN  SubSeq(s, lo, hi)

\* slices.Contains
SliceContains(list, x) == \E i \in 1..Len(list) : list[i] = x

MinOf(S) == CHOOSE x \in S : \A y \in S : x <= y

----------------------------------------------------------------------------
(* Regular expressions.  A configured pattern is one of the shapes the     *)
(* default configuration uses; "bad" is a pattern regexp.Compile rejects.  *)
(*   alt      (?i)(a|b|c) or (a|b|c): one of the literals alts occurs      *)
(*   http5xx  5\d{2}\s                                                     *)
(*   metric   name[=:]\s*([5-9]\d{2,}|\d{4,})   (name is the one alt)      *)
(*   duration (?i)(\d+(?:\.\d+)?)(ms|s)\s.*?(slow|timeout)                 *)

Alt(ci, alts) == [kind |-> "alt", ci |-> ci, alts |-> alts]
Http5xx == [kind |-> "http5xx", ci |-> FALSE, alts |-> {}]
Metric(name) == [kind |-> "metric", ci |-> FALSE, alts |-> {name}]
Duration == [kind |-> "duration", ci |-> TRUE, alts |-> {}]
BadPattern == [kind |-> "bad", ci |-> FALSE, alts |-> {}]

CharAt(s, i) == IF i >= 1 /\ i <= Len(s) THEN s[i] ELSE ""

\* "." inside a literal: any character but a newline
AnyChar == "<.>"

\* the literal lit (which may hold AnyChar) occurs in s
ContainsLiteral(s, lit) ==
    \E i \in 1..(Len(s) - Len(lit) + 1) :
        \A k \in 1..Len(lit) :
            IF lit[k] = AnyChar THEN s[i + k - 1] # "\n" ELSE s[i + k - 1] = lit[k]

MatchAlt(p, line) ==
    IF p.ci
    THEN LET low == ToLower(line) IN \E a \in p.alts : ContainsLiteral(low, ToLower(a))
    ELSE \E a \in p.alts : ContainsLiteral(line, a)

MatchHttp5xx(line) ==
    \E i \in 1..Len(line) :
        /\ line[i] = "5"
        /\ IsDigit(CharAt(line, i + 1))
        /\ IsDigit(CharAt(line, i + 2))
        /\ IsSpace(CharAt(line, i + 3))

\* ([5-9]\d{2,}|\d{4,}) at position j
BigNumberAt(line, j) ==
    \/ /\ CharAt(line, j) \in {"5","6","7","8","9"}
       /\ IsDigit(CharAt(line, j + 1))
       /\ IsDigit(CharAt(line, j + 2))
    \/ \A k \in 0..3 : IsDigit(CharAt(line, j + k))

MatchMetric(p, line) ==
    \E name \in p.alts : \E i \in 1..Len(line) :
        /\ HasAt(line, i, name)
        /\ CharAt(line, i + Len(name)) \in {"=", ":"}
        /\ \E j \in (i + Len(name) + 1)..Len(line) :
              /\ \A k \in (i + Len(name) + 1)..(j - 1) : IsSpace(line[k])
              /\ BigNumberAt(line, j)

MatchDuration(line) ==
    LET low == ToLower(line)
        \* position of the \s that follows the unit, given the digit at i
        After(i) == {j \in {i + 2, i + 3} :
                        /\ IsSpace(CharAt(low, j))
                        /\ \/ j = i + 2 /\ CharAt(low, i + 1) = "s"
                           \/ j = i + 3 /\ CharAt(low, i + 1) = "m" /\ CharAt(low, i + 2) = "s"}
    IN  \E i \in 1..Len(line) :
            /\ IsDigit(line[i])
            /\ \E j \in After(i) : \E q \in (j + 1)..Len(line) :
                  /\ \A k \in (j + 1)..(q - 1) : line[k] # "\n"
                  /\ \/ HasAt(low, q, <<"s","l","o","w">>)
                     \/ HasAt(low, q, <<"t","i","m","e","o","u","t">>)

\* regexp.Compile: does the pattern compile
Compiles(p) == p.kind # "bad"

\* (*Regexp).MatchString
MatchString(p, line) ==
    CASE p.kind = "alt" -> MatchAlt(p, line)
      [] p.kind = "http5xx" -> MatchHttp5xx(line)
      [] p.kind = "metric" -> MatchMetric(p, line)
      [] p.kind = "duration" -> MatchDuration(line)

----------------------------------------------------------------------------
(* levelPattern, (?i)\b(FATAL|CRITICAL|ERROR|WARN|INFO|DEBUG)\s+\[ *)

LevelKeywords == <<
    <<"f","a","t","a","l">>,
    <<"c","r","i","t","i","c","a","l">>,
    <<"e","r","r","o","r">>,
    <<"w","a","r","n">>,
    <<"i","n","f","o">>,
    <<"d","e","b","u","g">> >>

\* \b between position i-1 and i
WordBoundary(line, i) ==
    (i > 1 /\ IsWordChar(CharAt(line, i - 1))) # (i <= Len(line) /\ IsWordChar(CharAt(line, i)))

\* a token match without (?i): only the upper-case spelling matches
TokenEndCaseSensitive(line, i, kw) ==
    LET n == Len(kw)
        ends == {j \in (i + n + 1)..Len(line) :
                    /\ line[j] = "["
                    /\ \A k \in (i + n)..(j - 1) : IsSpace(line[k])}
    IN  IF i + n - 1 <= Len(line) /\ SubSeq(line, i, i + n - 1) = ToUpper(kw) /\ ends # {}
        THEN MinOf(ends) ELSE 0

\* the keyword kw (any case) at i, then \s+, then "[": the position of the "["
\* (0 when the token does not match here)
TokenEnd(line, i, kw) ==
    LET n == Len(kw)
        ends == {j \in (i + n + 1)..Len(line) :
                    /\ line[j] = "["
                    /\ \A k \in (i + n)..(j - 1) : IsSpace(line[k])}
    IN  IF i + n - 1 <= Len(line) /\ ToLower(SubSeq(line, i, i + n - 1)) = kw /\ ends # {}
        THEN MinOf(ends) ELSE 0

\* levelPattern.FindStringSubmatch(line): <<whole match, group 1>> of the
\* leftmost match, <<>> when there is none
FindLevelSubmatch(line) ==
    LET starts == {i \in 1..Len(line) :
                      /\ WordBoundary(line, i)
                      /\ \E k \in 1..Len(LevelKeywords) : TokenEnd(line, i, LevelKeywords[k]) > 0}
    IN  IF starts = {} THEN <<>>
        ELSE LET i == MinOf(starts)
                 k == MinOf({x \in 1..Len(LevelKeywords) : TokenEnd(line, i, LevelKeywords[x]) > 0})
             IN  << SubSeq(line, i, TokenEnd(line, i, LevelKeywords[k])),
                    SubSeq(line, i, i + Len(LevelKeywords[k]) - 1) >>

----------------------------------------------------------------------------
(* extractComponent, \[([^\]]+)\] : group 1 of the leftmost match, or ""   *)

extractComponent(line) ==
    LET closeOf(i) == {j \in (i + 2)..Len(line) :
                          /\ line[j] = "]"
                          /\ \A k \in (i + 1)..(j - 1) : line[k] # "]"}
        starts == {i \in 1..Len(line) : line[i] = "[" /\ closeOf(i) # {}}
    IN  IF starts = {} THEN <<>>
        ELSE LET i == MinOf(starts)
             IN  SubSeq(line, i + 1, MinOf(closeOf(i)) - 1)

----------------------------------------------------------------------------
(* Config (unnamed/part_000) *)

\* the literals of the default patterns
w_error == <<"e","r","r","o","r">>
w_exception == <<"e","x","c","e","p","t","i","o","n">>
w_fatal == <<"f","a","t","a","l">>
w_panic == <<"p","a","n","i","c">>
w_traceback == <<"t","r","a","c","e","b","a","c","k">>
w_failed == <<"f","a","i","l","e","d">>
w_failure == <<"f","a","i","l","u","r","e">>
w_timeout == <<"t","i","m","e","o","u","t">>
w_connection_refused == <<"c","o","n","n","e","c","t","i","o","n"," ","r","e","f","u","s","e","d">>
w_broken_pipe == <<"b","r","o","k","e","n"," ","p","i","p","e">>
w_out_of_memory == <<"o","u","t"," ","o","f"," ","m","e","m","o","r","y">>
w_oom == <<"o","o","m">>
w_segmentation_fault == <<"s","e","g","m","e","n","t","a","t","i","o","n"," ","f","a","u","l","t">>
w_core_dump == <<"c","o","r","e"," ","d","u","m","p">>
w_response_time == <<"r","e","s","p","o","n","s","e","_","t","i","m","e">>
w_latency == <<"l","a","t","e","n","c","y">>
w_drop == <<"D","R","O","P">>
w_reject == <<"R","E","J","E","C","T">>
w_blocke == <<"b","l","o","c","k","e">>
w_denied == <<"d","e","n","i","e","d">>
w_unauthorized == <<"u","n","a","u","t","h","o","r","i","z","e","d">>
w_brute_force == <<"b","r","u","t","e","f","o","r","c","e">>
w_injection == <<"i","n","j","e","c","t","i","o","n">>
w_xss == <<"x","s","s">>
w_csrf == <<"c","s","r","f">>
w_malware == <<"m","a","l","w","a","r","e">>
w_virus == <<"v","i","r","u","s">>
w_exploit == <<"e","x","p","l","o","i","t">>

\* brute.?force: "brute", at most one character other than a newline, "force"
BruteForceAlts ==
    {w_brute_force, <<"b","r","u","t","e", AnyChar, "f","o","r","c","e">>}

DefaultConfig ==
    [ ErrorPatterns |-> <<
          Alt(TRUE, {w_error, w_exception, w_fatal, w_panic, w_traceback}),
          Http5xx,
          Alt(TRUE, {w_failed, w_failure, w_timeout}),
          Alt(TRUE, {w_connection_refused, w_broken_pipe}),
          Alt(TRUE, {w_out_of_memory, w_oom}),
          Alt(TRUE, {w_segmentation_fault, w_core_dump}) >>,
      SlowPatterns |-> <<
          Duration,
          Metric(w_response_time),
          Metric(w_latency) >>,
      SuspiciousPatterns |-> <<
          Alt(TRUE, {w_drop, w_reject, w_blocke, w_denied, w_unauthorized}),
          Alt(TRUE, BruteForceAlts \cup {w_injection, w_xss, w_csrf}),
          Alt(TRUE, {w_malware, w_virus, w_exploit}) >>,
      AnomalyThreshold |-> DefaultAnomalyThreshold,
      ShowDebug |-> FALSE,
      ShowInfo |-> FALSE,
      ColorOutput |-> TRUE,
      CompactOutput |-> FALSE,
      IncludeComponents |-> <<>>,
      ExcludeComponents |-> <<>>,
      MinLevel |-> "WARN" ]

\* json.Unmarshal(data, cfg): the fields present in the document replace the
\* defaults, the others keep them.  A document is [present, values]: the
\* fields it holds and their values
Unmarshal(doc, c) ==
    [f \in DOMAIN c |-> IF f \in doc.present THEN doc.values[f] ELSE c[f]]

\* a LoadConfig that falls back to the defaults when the document does not parse
LoadConfigIgnoresMalformed(f) ==
    CASE f.state = "missing" -> [cfg |-> DefaultConfig, err |-> FALSE]
      [] f.state = "unreadable" -> [cfg |-> DefaultConfig, err |-> TRUE]
      [] f.state = "malformed" -> [cfg |-> DefaultConfig, err |-> FALSE]
      [] f.state = "valid" -> [cfg |-> Unmarshal(f.doc, DefaultConfig), err |-> FALSE]

\* LoadConfig(path): [cfg, err]. f.state is "missing" (os.Stat: not exist),
\* "unreadable" (os.ReadFile fails), "malformed" (json.Unmarshal fails) or "valid"
LoadConfig(f) ==
    CASE f.state = "missing" -> [cfg |-> DefaultConfig, err |-> FALSE]
      [] f.state = "unreadable" -> [cfg |-> DefaultConfig, err |-> TRUE]
      [] f.state = "malformed" -> [cfg |-> DefaultConfig, err |-> TRUE]
      [] f.state = "valid" -> [cfg |-> Unmarshal(f.doc, DefaultConfig), err |-> FALSE]

\* one loop of CompilePatterns: the patterns compiled, or the first error
RECURSIVE CompileAll(_, _)
CompileAll(patterns, acc) ==
    IF patterns = <<>> THEN [regexes |-> acc, err |-> FALSE]
    ELSE IF ~Compiles(Head(patterns)) THEN [regexes |-> <<>>, err |-> TRUE]
    ELSE CompileAll(Tail(patterns), Append(acc, Head(patterns)))

\* a CompilePatterns that skips a pattern that does not compile
CompilePatternsSkipBad(c) ==
    [ errorRegexes |-> SelectSeq(c.ErrorPatterns, Compiles),
      slowRegexes |-> SelectSeq(c.SlowPatterns, Compiles),
      suspiciousRegexes |-> SelectSeq(c.SuspiciousPatterns, Compiles),
      err |-> FALSE ]

CompilePatterns(c) ==
    LET none == [errorRegexes |-> <<>>, slowRegexes |-> <<>>,
                 suspiciousRegexes |-> <<>>, err |-> TRUE]
        e == CompileAll(c.ErrorPatterns, <<>>)
        s == CompileAll(c.SlowPatterns, <<>>)
        x == CompileAll(c.SuspiciousPatterns, <<>>)
    IN  IF e.err THEN none
        ELSE IF s.err THEN none
        ELSE IF x.err THEN none
        ELSE [errorRegexes |-> e.regexes, slowRegexes |-> s.regexes,
              suspiciousRegexes |-> x.regexes, err |-> FALSE]

\* a parseMinLevel whose default is WARN
parseMinLevelDefaultWarn(c) ==
    CASE c.MinLevel = "FATAL" -> FATAL
      [] c.MinLevel = "ERROR" -> ERROR
      [] c.MinLevel = "WARN" -> WARN
      [] c.MinLevel = "INFO" -> INFO
      [] OTHER -> WARN

parseMinLevel(c) ==
    CASE c.MinLevel = "FATAL" -> FATAL
      [] c.MinLevel = "ERROR" -> ERROR
      [] c.MinLevel = "WARN" -> WARN
      [] c.MinLevel = "INFO" -> INFO
      [] OTHER -> DEBUG

\* a ShouldShow in which a listed component is shown without the exclude check
ShouldShowIncludeWins(c, e) ==
    LET component == extractComponent(e.Raw)
    IN  IF e.Level < parseMinLevel(c) THEN FALSE
        ELSE IF Len(c.IncludeComponents) > 0
        THEN SliceContains(c.IncludeComponents, component)
        ELSE ~SliceContains(c.ExcludeComponents, component)

ShouldShow(c, e) ==
    LET minLevel == parseMinLevel(c)
        component == extractComponent(e.Raw)
    IN  IF e.Level < minLevel THEN FALSE
        ELSE IF Len(c.IncludeComponents) > 0 /\ ~SliceContains(c.IncludeComponents, component)
        THEN FALSE
        ELSE ~SliceContains(c.ExcludeComponents, component)

----------------------------------------------------------------------------
(* AnomalyDetector (main.go) *)

\* NewDetectorWithConfig: on a compile error all three sets are empty
NewDetectorWithConfig(c) ==
    LET r == CompilePatterns(c)
    IN  [ errorPatterns |-> IF r.err THEN <<>> ELSE r.errorRegexes,
          slowPatterns |-> IF r.err THEN <<>> ELSE r.slowRegexes,
          suspiciousIPs |-> IF r.err THEN <<>> ELSE r.suspiciousRegexes,
          lineCount |-> 0,
          errorCount |-> 0,
          warnCount |-> 0,
          anomalyCount |-> 0 ]

Case(level, score, errs, warns) ==
    [Level |-> level, Score |-> score, errorCount |-> errs, warnCount |-> warns]

\* a switch whose WARN case increments errorCount
StructuredCaseWarnAsError(levelStr) ==
    CASE levelStr \in {ToUpper(LevelKeywords[1]), ToUpper(LevelKeywords[2])} ->
             Case(FATAL, FatalScore, 1, 0)
      [] levelStr = ToUpper(LevelKeywords[3]) -> Case(ERROR, ErrorScore, 1, 0)
      [] levelStr = ToUpper(LevelKeywords[4]) -> Case(WARN, WarnScore, 1, 0)
      [] levelStr = ToUpper(LevelKeywords[5]) -> Case(INFO, 0, 0, 0)
      [] OTHER -> Case(DEBUG, 0, 0, 0)

\* the switch on the structured token, main.go:102-119
StructuredCase(levelStr) ==
    CASE levelStr \in {ToUpper(LevelKeywords[1]), ToUpper(LevelKeywords[2])} ->
             Case(FATAL, FatalScore, 1, 0)
      [] levelStr = ToUpper(LevelKeywords[3]) -> Case(ERROR, ErrorScore, 1, 0)
      [] levelStr = ToUpper(LevelKeywords[4]) -> Case(WARN, WarnScore, 0, 1)
      [] levelStr = ToUpper(LevelKeywords[5]) -> Case(INFO, 0, 0, 0)
      [] OTHER -> Case(DEBUG, 0, 0, 0)

w_critical == <<"c","r","i","t","i","c","a","l">>
w_errors0 == <<"e","r","r","o","r","s","=","0">>
w_warn == <<"w","a","r","n">>
w_info == <<"i","n","f","o">>

\* a keyword fallback that forgets the errors=0 exception
FallbackCaseNoErrorsZero(lineLower) ==
    IF Contains(lineLower, w_fatal) \/ Contains(lineLower, w_critical)
    THEN Case(FATAL, FatalScore, 1, 0)
    ELSE IF Contains(lineLower, w_error)
    THEN Case(ERROR, ErrorScore, 1, 0)
    ELSE IF Contains(lineLower, w_warn)
    THEN Case(WARN, WarnScore, 0, 1)
    ELSE IF Contains(lineLower, w_info)
    THEN Case(INFO, 0, 0, 0)
    ELSE Case(DEBUG, 0, 0, 0)

\* the keyword fallback, main.go:122-139 (the first case that holds is taken)
FallbackCase(lineLower) ==
    IF Contains(lineLower, w_fatal) \/ Contains(lineLower, w_critical)
    THEN Case(FATAL, FatalScore, 1, 0)
    ELSE IF Contains(lineLower, w_error) /\ ~Contains(lineLower, w_errors0)
    THEN Case(ERROR, ErrorScore, 1, 0)
    ELSE IF Contains(lineLower, w_warn)
    THEN Case(WARN, WarnScore, 0, 1)
    ELSE IF Contains(lineLower, w_info)
    THEN Case(INFO, 0, 0, 0)
    ELSE Case(DEBUG, 0, 0, 0)

\* a pattern loop that stops at the first match
RECURSIVE ApplyPatternsFirstOnly(_, _, _, _)
ApplyPatternsFirstOnly(patterns, line, weight, e) ==
    IF patterns = <<>> THEN e
    ELSE IF MatchString(Head(patterns), line)
    THEN [e EXCEPT !.Score = @ + weight, !.IsAnomaly = TRUE]
    ELSE ApplyPatternsFirstOnly(Tail(patterns), line, weight, e)

\* one of the three pattern loops, main.go:143-164
RECURSIVE ApplyPatterns(_, _, _, _)
ApplyPatterns(patterns, line, weight, e) ==
    IF patterns = <<>> THEN e
    ELSE ApplyPatterns(Tail(patterns), line, weight,
             IF MatchString(Head(patterns), line)
             THEN [e EXCEPT !.Score = @ + weight, !.IsAnomaly = TRUE]
             ELSE e)

\* a threshold decision with > for >=
ThresholdStrict(e, det, threshold) ==
    IF e.Score > threshold
    THEN [entry |-> [e EXCEPT !.IsAnomaly = TRUE],
          d |-> [det EXCEPT !.anomalyCount = @ + 1]]
    ELSE [entry |-> e, d |-> det]

\* a threshold decision that counts every entry flagged as an anomaly
ThresholdCountsFlagged(e, det, threshold) ==
    LET flagged == e.IsAnomaly \/ e.Score >= threshold
    IN  [entry |-> [e EXCEPT !.IsAnomaly = flagged],
         d |-> IF flagged THEN [det EXCEPT !.anomalyCount = @ + 1] ELSE det]

\* a threshold decision that stays raised once the detector has counted an anomaly
ThresholdSticky(e, det, threshold) ==
    IF e.Score >= threshold \/ det.anomalyCount > 0
    THEN [entry |-> [e EXCEPT !.IsAnomaly = TRUE],
          d |-> [det EXCEPT !.anomalyCount = @ + 1]]
    ELSE [entry |-> e, d |-> det]

\* the final anomaly decision, main.go:166-170
Threshold(e, det, threshold) ==
    IF e.Score >= threshold
    THEN [entry |-> [e EXCEPT !.IsAnomaly = TRUE],
          d |-> [det EXCEPT !.anomalyCount = @ + 1]]
    ELSE [entry |-> e, d |-> det]

\* ParseLine: [entry, d], the entry returned and the detector afterwards.
\* (Timestamp, the wall-clock time of the call, is left out.)
ParseLine(det, c, line) ==
    LET lineLower == ToLower(line)
        matches == FindLevelSubmatch(line)
        lv == IF Len(matches) > 1 THEN StructuredCase(ToUpper(matches[2]))
              ELSE FallbackCase(lineLower)
        d1 == [det EXCEPT !.lineCount = @ + 1,
                          !.errorCount = @ + lv.errorCount,
                          !.warnCount = @ + lv.warnCount]
        e0 == [Raw |-> line, Level |-> lv.Level, Message |-> <<>>,
               IsAnomaly |-> FALSE, Score |-> lv.Score]
        e1 == ApplyPatterns(det.errorPatterns, line, ErrorPatternScore, e0)
        e2 == ApplyPatterns(det.slowPatterns, line, SlowPatternScore, e1)
        e3 == ApplyPatterns(det.suspiciousIPs, line, SuspiciousPatternScore, e2)
        r == Threshold(e3, d1, c.AnomalyThreshold)
    IN  [entry |-> [r.entry EXCEPT !.Message = TrimSpace(line)], d |-> r.d]

----------------------------------------------------------------------------
(* CLIOptions (unnamed/part_001) *)

\* ParseCLI: a flag that is not given keeps its default; a string flag is
\* <<>> when absent from the command line and <<value>> when given.
\* ConfigFile is TRUE when --config names a path (ConfigFile # "")
ParseCLI(a) ==
    [ ConfigFile |-> a.config,
      ShowAll |-> a.all,
      ShowDebug |-> a.debug,
      ShowInfo |-> a.info,
      NoColor |-> a.noColor,
      Compact |-> a.compact,
      Component |-> IF a.component = <<>> THEN <<>> ELSE a.component[1],
      MinLevel |-> IF a.minLevel = <<>> THEN "WARN" ELSE a.minLevel[1],
      OnlyAnomalies |-> a.anomaliesOnly,
      GenerateConfig |-> a.generateConfig,
      Version |-> a.version ]

ApplyToConfig(o, c) ==
    LET c1 == IF o.ShowAll
              THEN [c EXCEPT !.ShowDebug = TRUE, !.ShowInfo = TRUE, !.MinLevel = "DEBUG"]
              ELSE c
        c2 == IF o.ShowDebug
              THEN [c1 EXCEPT !.ShowDebug = TRUE,
                              !.MinLevel = IF @ = "INFO" \/ @ = "WARN" THEN "DEBUG" ELSE @]
              ELSE c1
        c3 == IF o.ShowInfo
              THEN [c2 EXCEPT !.ShowInfo = TRUE,
                              !.MinLevel = IF @ = "WARN" THEN "INFO" ELSE @]
              ELSE c2
        c4 == IF o.NoColor THEN [c3 EXCEPT !.ColorOutput = FALSE] ELSE c3
        c5 == IF o.Compact THEN [c4 EXCEPT !.CompactOutput = TRUE] ELSE c4
        c6 == IF o.Component # <<>> THEN [c5 EXCEPT !.IncludeComponents = <<o.Component>>] ELSE c5
    IN  IF o.MinLevel # "" THEN [c6 EXCEPT !.MinLevel = o.MinLevel] ELSE c6

----------------------------------------------------------------------------
(* main(), main.go:265-333, one action per step *)

NoEntry == [Raw |-> <<>>, Level |-> DEBUG, Message |-> <<>>, IsAnomaly |-> FALSE, Score |-> 0]
NoDetector ==
    [errorPatterns |-> <<>>, slowPatterns |-> <<>>, suspiciousIPs |-> <<>>,
     lineCount |-> 0, errorCount |-> 0, warnCount |-> 0, anomalyCount |-> 0]

\* &CLIOptions{}
ZeroOptions ==
    [ ConfigFile |-> FALSE, ShowAll |-> FALSE, ShowDebug |-> FALSE, ShowInfo |-> FALSE,
      NoColor |-> FALSE, Compact |-> FALSE, Component |-> <<>>, MinLevel |-> "",
      OnlyAnomalies |-> FALSE, GenerateConfig |-> FALSE, Version |-> FALSE ]

\* the process starts: nothing parsed, nothing read
Start(a, f, in, err) ==
    /\ pc = "cli"
    /\ args = a
    /\ file = f
    /\ stdin = in
    /\ stdinErr = err
    /\ opts = ZeroOptions
    /\ cfg = DefaultConfig
    /\ d = NoDetector
    /\ entry = NoEntry
    /\ entries = <<>>
    /\ shown = FALSE
    /\ printed = <<>>
    /\ warned = FALSE
    /\ stats = <<>>
    /\ exitCode = -1

\* opts := ParseCLI()
ParseCLIStep ==
    /\ pc = "cli"
    /\ opts' = ParseCLI(args)
    /\ pc' = "special"
    /\ UNCHANGED <<args, file, stdin, stdinErr, cfg, d, entry, entries, shown,
                   printed, warned, stats, exitCode>>

\* opts.HandleSpecialCommands(): --version and --generate-config write their
\* text and main returns; writing the generated config may fail (exit 1)
HandleSpecialCommands ==
    /\ pc = "special"
    /\ IF opts.Version
       THEN pc' = "done" /\ exitCode' = 0
       ELSE IF opts.GenerateConfig
       THEN pc' = "done" /\ \E ok \in BOOLEAN : exitCode' = IF ok THEN 0 ELSE 1
       ELSE pc' = "load" /\ exitCode' = exitCode
    /\ UNCHANGED <<args, file, stdin, stdinErr, opts, cfg, d, entry, entries, shown,
                   printed, warned, stats>>

\* cfg := DefaultConfig(); LoadConfig when --config is given; exit 1 on error
LoadConfigStep ==
    /\ pc = "load"
    /\ IF opts.ConfigFile
       THEN LET r == LoadConfig(file)
            IN  IF r.err
                THEN pc' = "done" /\ exitCode' = 1 /\ cfg' = cfg
                ELSE pc' = "apply" /\ exitCode' = exitCode /\ cfg' = r.cfg
       ELSE pc' = "apply" /\ exitCode' = exitCode /\ cfg' = DefaultConfig
    /\ UNCHANGED <<args, file, stdin, stdinErr, opts, d, entry, entries, shown,
                   printed, warned, stats>>

\* opts.ApplyToConfig(cfg)
ApplyToConfigStep ==
    /\ pc = "apply"
    /\ cfg' = ApplyToConfig(opts, cfg)
    /\ pc' = "detector"
    /\ UNCHANGED <<args, file, stdin, stdinErr, opts, d, entry, entries, shown,
                   printed, warned, stats, exitCode>>

\* detector := NewDetectorWithConfig(cfg)
NewDetectorStep ==
    /\ pc = "detector"
    /\ d' = NewDetectorWithConfig(cfg)
    /\ warned' = CompilePatterns(cfg).err
    /\ pc' = "scan"
    /\ UNCHANGED <<args, file, stdin, stdinErr, opts, cfg, entry, entries, shown,
                   printed, stats, exitCode>>

\* scanner.Scan() returns a line; entry := detector.ParseLine(line)
ScanLine ==
    /\ pc = "scan"
    /\ stdin # <<>>
    /\ LET r == ParseLine(d, cfg, Head(stdin))
       IN  /\ entry' = r.entry
           /\ d' = r.d
           /\ entries' = Append(entries, r.entry)
    /\ stdin' = Tail(stdin)
    /\ pc' = "show"
    /\ UNCHANGED <<args, file, stdinErr, opts, cfg, shown, printed, warned, stats, exitCode>>

\* what the entry's output method writes: the banner (with the score) and the level tag and message
LogEntryOutput(e, c) ==
    [ n |-> Len(entries),
      Banner |-> e.IsAnomaly /\ ~c.CompactOutput,
      Color |-> c.ColorOutput,
      Score |-> e.Score,
      Level |-> e.Level,
      Message |-> e.Message ]

\* a loop body that prints an anomaly without asking ShouldShow
ShowAnomaliesAlways ==
    /\ pc = "show"
    /\ shown' = ShouldShow(cfg, entry)
    /\ printed' =
          IF entry.IsAnomaly THEN Append(printed, LogEntryOutput(entry, cfg))
          ELSE IF ~ShouldShow(cfg, entry) \/ opts.OnlyAnomalies THEN printed
          ELSE (IF entry.Level >= WARN
                THEN Append(printed, LogEntryOutput(entry, cfg)) ELSE printed)
    /\ pc' = "scan"
    /\ UNCHANGED <<args, file, stdin, stdinErr, opts, cfg, d, entry, entries,
                   warned, stats, exitCode>>

\* the rest of the loop body, main.go:305-320
Show ==
    /\ pc = "show"
    /\ shown' = ShouldShow(cfg, entry)
    /\ printed' =
          IF ~ShouldShow(cfg, entry) THEN printed
          ELSE IF opts.OnlyAnomalies
          THEN (IF entry.IsAnomaly THEN Append(printed, LogEntryOutput(entry, cfg)) ELSE printed)
          ELSE (IF entry.IsAnomaly \/ entry.Level >= WARN
                THEN Append(printed, LogEntryOutput(entry, cfg)) ELSE printed)
    /\ pc' = "scan"
    /\ UNCHANGED <<args, file, stdin, stdinErr, opts, cfg, d, entry, entries,
                   warned, stats, exitCode>>

\* scanner.Scan() returns false at end of input: statistics, then exit 0
ScanEOF ==
    /\ pc = "scan"
    /\ stdin = <<>>
    /\ ~stdinErr
    /\ stats' = IF ~cfg.CompactOutput
                THEN <<[lines |-> d.lineCount, anomalies |-> d.anomalyCount,
                        errors |-> d.errorCount, warnings |-> d.warnCount]>>
                ELSE stats
    /\ exitCode' = 0
    /\ pc' = "done"
    /\ UNCHANGED <<args, file, stdin, stdinErr, opts, cfg, d, entry, entries, shown,
                   printed, warned>>

\* scanner.Scan() returns false on a read error: scanner.Err() # nil, exit 1
ScanError ==
    /\ pc = "scan"
    /\ stdin = <<>>
    /\ stdinErr
    /\ exitCode' = 1
    /\ pc' = "done"
    /\ UNCHANGED <<args, file, stdin, stdinErr, opts, cfg, d, entry, entries, shown,
                   printed, warned, stats>>

----------------------------------------------------------------------------
(* Inputs *)

\* pieces of log lines: structured tokens, keywords, text the patterns match
fr_error_db == <<"E","R","R","O","R"," ","[","d","b","]"," ">>
fr_critical_a == <<"c","r","i","t","i","c","a","l"," "," ","[","a","]">>
fr_warn_b == <<"W","a","r","n","\t","[","b","]">>
fr_info_db == <<"I","N","F","O"," ","[","d","b","]">>
fr_debug_a == <<"d","e","b","u","g"," ","[","a","]">>
fr_xinfo_a == <<"x","i","n","f","o"," ","[","a","]">>
fr_fatal == <<" ","f","a","t","a","l">>
fr_errors0 == <<" ","e","r","r","o","r","s","=","0">>
fr_error == <<" ","E","r","r","o","r">>
fr_warning == <<" ","w","a","r","n","i","n","g">>
fr_info == <<" ","i","n","f","o">>
fr_timeout == <<" ","t","i","m","e","o","u","t">>
fr_denied_502 == <<" ","d","e","n","i","e","d"," ","5","0","2"," ">>
fr_slow == <<" ","3","0","s"," ","s","l","o","w">>
fr_empty_brackets == <<"[","]">>

Fragments ==
    {fr_error_db, fr_critical_a, fr_warn_b, fr_info_db,
     fr_debug_a, fr_xinfo_a, fr_fatal, fr_errors0,
     fr_error, fr_warning, fr_info, fr_timeout,
     fr_denied_502, fr_slow}

\* whole lines for the runs of main()
ln_info == <<"I","N","F","O"," ","s","t","a","r","t","e","d">>
ln_error_db == <<"E","R","R","O","R"," ","[","d","b","]"," ","t","i","m","e","o","u","t">>
ln_info_failed == <<"i","n","f","o"," ","[","a","]"," ","f","a","i","l","e","d">>
ln_warn_db == <<"W","A","R","N"," ","[","d","b","]"," ","d","i","s","k">>
ln_debug == <<" ","t","r","a","c","e"," ">>
ln_latency == <<"l","a","t","e","n","c","y",":"," ","1","5","0","0">>

MainLines == {ln_info, ln_error_db, ln_info_failed, ln_warn_db, ln_debug, ln_latency}
c_db == <<"d","b">>
c_a == <<"a">>
c_b == <<"b">>

\* the most fragments concatenated into one line
MaxFrags == 2
\* the most lines on standard input in a run of main()
MaxLines == 2

RECURSIVE Concat(_)
Concat(parts) == IF parts = <<>> THEN <<>> ELSE Head(parts) \o Concat(Tail(parts))

SeqsUpTo(S, n) == UNION {[1..k -> S] : k \in 0..n}

Lines == {Concat(parts) : parts \in SeqsUpTo(Fragments, MaxFrags)}

FilterFragments == {fr_error_db, fr_info_db, fr_debug_a, fr_warn_b, fr_empty_brackets}
FilterLines == {Concat(parts) : parts \in SeqsUpTo(FilterFragments, MaxFrags)}

\* command lines
NoArgs ==
    [ config |-> FALSE, all |-> FALSE, debug |-> FALSE, info |-> FALSE,
      noColor |-> FALSE, compact |-> FALSE, component |-> <<>>, minLevel |-> <<>>,
      anomaliesOnly |-> FALSE, generateConfig |-> FALSE, version |-> FALSE ]

MinLevelStrings == {"", "DEBUG", "INFO", "WARN", "ERROR", "FATAL", "warn"}
MinLevelFlags == {<<>>} \cup {<<m>> : m \in MinLevelStrings}

\* config files; NoFile stands for the run without --config
EmptyDoc == [present |-> {}, values |-> DefaultConfig]
NoFile == [state |-> "missing", doc |-> EmptyDoc]
Malformed == [state |-> "malformed", doc |-> EmptyDoc]
Unreadable == [state |-> "unreadable", doc |-> EmptyDoc]
Doc(present, values) == [state |-> "valid", doc |-> [present |-> present, values |-> values]]

p_error == Alt(TRUE, {w_error})
p_timeout == Alt(FALSE, {w_timeout})
p_slow == Alt(TRUE, {<<"s","l","o","w">>})

\* {"error_patterns": [error, error], "slow_patterns": [slow], "suspicious_patterns": [],
\*  "anomaly_threshold": 60}: one pattern listed twice
DocTwice ==
    Doc({"ErrorPatterns", "SlowPatterns", "SuspiciousPatterns", "AnomalyThreshold"},
        [DefaultConfig EXCEPT !.ErrorPatterns = <<p_error, p_error>>,
                              !.SlowPatterns = <<p_slow>>,
                              !.SuspiciousPatterns = <<>>,
                              !.AnomalyThreshold = 60])

\* no patterns at all and a threshold of 50
DocNoPatterns ==
    Doc({"ErrorPatterns", "SlowPatterns", "SuspiciousPatterns", "AnomalyThreshold"},
        [DefaultConfig EXCEPT !.ErrorPatterns = <<>>,
                              !.SlowPatterns = <<>>,
                              !.SuspiciousPatterns = <<>>,
                              !.AnomalyThreshold = 50])

\* a threshold no score of these lines reaches
DocHighThreshold ==
    Doc({"AnomalyThreshold"}, [DefaultConfig EXCEPT !.AnomalyThreshold = 500])

\* a pattern that does not compile, in one of the three categories
DocBadError ==
    Doc({"ErrorPatterns"}, [DefaultConfig EXCEPT !.ErrorPatterns = <<p_timeout, BadPattern>>])
DocBadSlow ==
    Doc({"SlowPatterns", "AnomalyThreshold"},
        [DefaultConfig EXCEPT !.SlowPatterns = <<BadPattern>>, !.AnomalyThreshold = 20])
DocBadSuspicious ==
    Doc({"SuspiciousPatterns"},
        [DefaultConfig EXCEPT !.SuspiciousPatterns = Append(@, BadPattern)])

\* the configuration main() has built when the loop starts
ConfigOf(a, f) ==
    ApplyToConfig(ParseCLI(a), IF a.config THEN LoadConfig(f).cfg ELSE DefaultConfig)

\* main() inside its loop, about to read the lines in
InLoop(a, f, in) ==
    /\ pc = "scan"
    /\ args = a
    /\ file = f
    /\ stdin = in
    /\ stdinErr = FALSE
    /\ opts = ParseCLI(a)
    /\ cfg = ConfigOf(a, f)
    /\ d = NewDetectorWithConfig(ConfigOf(a, f))
    /\ entry = NoEntry
    /\ entries = <<>>
    /\ shown = FALSE
    /\ printed = <<>>
    /\ warned = CompilePatterns(ConfigOf(a, f)).err
    /\ stats = <<>>
    /\ exitCode = -1

----------------------------------------------------------------------------
(* SpecParse: ParseLine on every line of Lines, under four configurations *)

WithConfig == [NoArgs EXCEPT !.config = TRUE]
ParseFiles == {NoFile, DocTwice, DocNoPatterns, DocHighThreshold}

InitParse ==
    \E f \in ParseFiles : \E l \in Lines :
        InLoop(IF f = NoFile THEN NoArgs ELSE WithConfig, f, <<l>>)

NextParse == ScanLine

SpecParse == InitParse /\ [][NextParse]_vars


----------------------------------------------------------------------------
(* Claims about ParseLine, checked under SpecParse *)

\* how many patterns of the list match the line
Matching(patterns, line) ==
    Cardinality({i \in 1..Len(patterns) : MatchString(patterns[i], line)})

LevelBase(level) ==
    CASE level = 0 -> 0
      [] level = 1 -> 0
      [] level = 2 -> 20
      [] level = 3 -> 50
      [] level = 4 -> 100

\* ParseLine has returned the entry of a line
Parsed == pc = "show" /\ entries # <<>>

\* C1: the Score of the entry ParseLine returns is non-negative and is the
\* level-base contribution of its Level plus 30, 25 and 40 for every matching
\* error, slow and suspicious pattern, every pattern counted, no cap
C1_ScoreIsSum ==
    Parsed =>
        /\ entry.Score >= 0
        /\ entry.Score = LevelBase(entry.Level)
                         + 30 * Matching(d.errorPatterns, entry.Raw)
                         + 25 * Matching(d.slowPatterns, entry.Raw)
                         + 40 * Matching(d.suspiciousIPs, entry.Raw)

\* two patterns of one category match a line that also has a level contribution
C1_Witness ==
    /\ Parsed
    /\ Matching(d.errorPatterns, entry.Raw) = 2
    /\ entry.Level = 2
    /\ entry.Score = 20 + 60

AnyPatternMatched ==
    \/ Matching(d.errorPatterns, entry.Raw) > 0
    \/ Matching(d.slowPatterns, entry.Raw) > 0
    \/ Matching(d.suspiciousIPs, entry.Raw) > 0

\* C2: IsAnomaly is true when Score >= AnomalyThreshold, true when a pattern
\* matched (also below the threshold), and false when neither holds
C2_IsAnomaly ==
    Parsed =>
        /\ entry.Score >= cfg.AnomalyThreshold => entry.IsAnomaly
        /\ AnyPatternMatched => entry.IsAnomaly
        /\ (~AnyPatternMatched /\ entry.Score < cfg.AnomalyThreshold) => ~entry.IsAnomaly

\* an entry flagged by the threshold alone, its score exactly the threshold
C2_Witness ==
    /\ Parsed
    /\ ~AnyPatternMatched
    /\ entry.Score = cfg.AnomalyThreshold
    /\ entry.IsAnomaly

\* the level a structured token stands for
TokenLevel(k) ==
    CASE k \in {1, 2} -> 4
      [] k = 3 -> 3
      [] k = 4 -> 2
      [] k = 5 -> 1
      [] k = 6 -> 0

\* keyword k of FATAL, CRITICAL, ERROR, WARN, INFO, DEBUG in any letter case
\* at position i, followed by whitespace and then "["
StructuredTokenAt(line, i, k) ==
    LET kw == LevelKeywords[k]
        n == Len(kw)
    IN  /\ i + n - 1 <= Len(line)
        /\ \A x \in 1..n : ToLowerChar(line[i + x - 1]) = kw[x]
        /\ \E j \in (i + n + 1)..Len(line) :
              /\ line[j] = "["
              /\ \A x \in (i + n)..(j - 1) : line[x] \in {" ", "\t", "\n", "\f", "\r"}

\* a structured token that is not preceded by a letter, a digit or "_"
BoundaryTokenAt(line, i, k) ==
    /\ StructuredTokenAt(line, i, k)
    /\ i > 1 => ~IsWordChar(line[i - 1])

HasBoundaryToken(line) ==
    \E i \in 1..Len(line) : \E k \in 1..6 : BoundaryTokenAt(line, i, k)

\* C4, as claimed: a line that contains a structured token has that token's level
C4_AnyTokenDecides ==
    Parsed =>
        \A i \in 1..Len(entry.Raw) : \A k \in 1..6 :
            StructuredTokenAt(entry.Raw, i, k) => entry.Level = TokenLevel(k)

\* C4, amended: the Level is that of the leftmost structured token that starts
\* at a word boundary (CRITICAL is FATAL), whatever keywords or later tokens
\* the line holds besides
C4_LeftmostBoundaryToken ==
    Parsed =>
        \A i \in 1..Len(entry.Raw) : \A k \in 1..6 :
            ( /\ BoundaryTokenAt(entry.Raw, i, k)
              /\ \A i2 \in 1..(i - 1) : \A k2 \in 1..6 : ~BoundaryTokenAt(entry.Raw, i2, k2) )
            => entry.Level = TokenLevel(k)

\* a lower-case debug token decides the level of a line that also says fatal
C4_Witness ==
    /\ Parsed
    /\ BoundaryTokenAt(entry.Raw, 1, 6)
    /\ entry.Raw[1] = "d"
    /\ Contains(ToLower(entry.Raw), w_fatal)
    /\ entry.Level = 0

\* C5: without a structured token the Level is FATAL for fatal or critical,
\* else ERROR for error without errors=0, else WARN for warn, else INFO for
\* info, else DEBUG (substrings, any letter case)
C5_FallbackOrder ==
    (Parsed /\ ~HasBoundaryToken(entry.Raw)) =>
        LET low == ToLower(entry.Raw)
            has(w) == Contains(low, w)
        IN  entry.Level =
                IF has(w_fatal) \/ has(w_critical) THEN 4
                ELSE IF has(w_error) /\ ~has(w_errors0) THEN 3
                ELSE IF has(w_warn) THEN 2
                ELSE IF has(w_info) THEN 1
                ELSE 0

\* a line with errors=0 and error, no token, that is classified WARN
C5_Witness ==
    /\ Parsed
    /\ ~HasBoundaryToken(entry.Raw)
    /\ Contains(ToLower(entry.Raw), w_errors0)
    /\ Contains(ToLower(entry.Raw), w_warn)
    /\ entry.Level = 2

----------------------------------------------------------------------------
(* SpecFilter: the filter and display step on every entry of FilterLines,  *)
(* for every --min-level and the include and exclude lists of a file       *)

\* main() after ParseLine returned the entry of line l, the only line
AfterParse(a, f, l) ==
    LET c == ConfigOf(a, f)
        r == ParseLine(NewDetectorWithConfig(c), c, l)
    IN  /\ pc = "show"
        /\ args = a
        /\ file = f
        /\ stdin = <<>>
        /\ stdinErr = FALSE
        /\ opts = ParseCLI(a)
        /\ cfg = c
        /\ d = r.d
        /\ entry = r.entry
        /\ entries = <<r.entry>>
        /\ shown = FALSE
        /\ printed = <<>>
        /\ warned = CompilePatterns(c).err
        /\ stats = <<>>
        /\ exitCode = -1

IncludeLists == {<<>>, <<c_a, c_db>>}
ExcludeLists == {<<>>, <<c_db>>, << <<>>, c_b >>}

FilterFiles ==
    {Doc({"IncludeComponents", "ExcludeComponents"},
         [DefaultConfig EXCEPT !.IncludeComponents = inc, !.ExcludeComponents = exc]) :
        inc \in IncludeLists, exc \in ExcludeLists}
    \cup {Doc({"MinLevel"}, [DefaultConfig EXCEPT !.MinLevel = ""])}

InitFilter ==
    \E m \in MinLevelFlags : \E f \in FilterFiles : \E l \in FilterLines :
        AfterParse([WithConfig EXCEPT !.minLevel = m], f, l)

NextFilter == Show

SpecFilter == InitFilter /\ [][NextFilter]_vars

\* the filter has decided about the entry
Filtered == pc = "scan" /\ entries # <<>>

\* C6: ShouldShow is false for every entry whose extracted component is in
\* ExcludeComponents, also when IncludeComponents holds it and the level passes
C6_ExcludeWins ==
    (Filtered /\ SliceContains(cfg.ExcludeComponents, extractComponent(entry.Raw)))
        => (~shown /\ printed = <<>>)

\* the component is listed in both lists and the level passes the gate
C6_Witness ==
    /\ Filtered
    /\ extractComponent(entry.Raw) = c_db
    /\ SliceContains(cfg.ExcludeComponents, c_db)
    /\ SliceContains(cfg.IncludeComponents, c_db)
    /\ cfg.MinLevel = "INFO"
    /\ entry.Level = 3
    /\ ~shown

ComponentGate ==
    LET component == extractComponent(entry.Raw)
    IN  /\ cfg.IncludeComponents # <<>> => SliceContains(cfg.IncludeComponents, component)
        /\ ~SliceContains(cfg.ExcludeComponents, component)

\* C7: a MinLevel other than FATAL, ERROR, WARN, INFO (the empty string too)
\* parses to DEBUG and the level gate passes every entry; for a recognized
\* MinLevel the gate passes exactly the entries with Level >= that level
C7_MinLevelGate ==
    Filtered =>
        IF cfg.MinLevel \in {"FATAL", "ERROR", "WARN", "INFO"}
        THEN LET min == CASE cfg.MinLevel = "FATAL" -> 4
                          [] cfg.MinLevel = "ERROR" -> 3
                          [] cfg.MinLevel = "WARN" -> 2
                          [] cfg.MinLevel = "INFO" -> 1
             IN  shown = (entry.Level >= min /\ ComponentGate)
        ELSE shown = ComponentGate

\* an unrecognized MinLevel lets a DEBUG entry through
C7_Witness ==
    /\ Filtered
    /\ cfg.MinLevel = "warn"
    /\ entry.Level = 0
    /\ shown

----------------------------------------------------------------------------
(* SpecCLI: ApplyToConfig for every combination of the flags it reads and  *)
(* every min_level of the config file                                      *)

\* main() about to apply the CLI overrides
AtApply(a, f) ==
    /\ pc = "apply"
    /\ args = a
    /\ file = f
    /\ stdin = <<>>
    /\ stdinErr = FALSE
    /\ opts = ParseCLI(a)
    /\ cfg = IF a.config THEN LoadConfig(f).cfg ELSE DefaultConfig
    /\ d = NoDetector
    /\ entry = NoEntry
    /\ entries = <<>>
    /\ shown = FALSE
    /\ printed = <<>>
    /\ warned = FALSE
    /\ stats = <<>>
    /\ exitCode = -1

CLIArgs ==
    {[NoArgs EXCEPT !.config = TRUE, !.all = al, !.debug = de, !.info = inf,
                    !.minLevel = m, !.noColor = o, !.compact = o,
                    !.component = IF o THEN <<c_db>> ELSE <<>>] :
        al \in BOOLEAN, de \in BOOLEAN, inf \in BOOLEAN, m \in MinLevelFlags, o \in BOOLEAN}

CLIFiles ==
    {NoFile} \cup {Doc({"MinLevel"}, [DefaultConfig EXCEPT !.MinLevel = m]) : m \in MinLevelStrings}

InitCLI == \E a \in CLIArgs : \E f \in CLIFiles : AtApply(a, f)

NextCLI == ApplyToConfigStep

SpecCLI == InitCLI /\ [][NextCLI]_vars

\* C8: with --all the Config ApplyToConfig produces has MinLevel = DEBUG and
\* ShowDebug and ShowInfo true, whatever the other flags and the file say
C8_AllYieldsDebug ==
    (pc = "detector" /\ args.all) =>
        (cfg.MinLevel = "DEBUG" /\ cfg.ShowDebug /\ cfg.ShowInfo)

\* C16: without --min-level, --all, --debug and --info on the command line the
\* MinLevel in effect after ApplyToConfig is the min_level of the configuration file
C16_FileMinLevelKept ==
    ( /\ pc = "detector"
      /\ args.config /\ file.state = "valid" /\ "MinLevel" \in file.doc.present
      /\ args.minLevel = <<>> /\ ~args.all /\ ~args.debug /\ ~args.info )
    => cfg.MinLevel = file.doc.values.MinLevel

----------------------------------------------------------------------------
(* Spec: whole runs of main() *)

MainArgs ==
    { NoArgs,
      [NoArgs EXCEPT !.all = TRUE],
      [NoArgs EXCEPT !.all = TRUE, !.minLevel = <<"DEBUG">>],
      [NoArgs EXCEPT !.anomaliesOnly = TRUE],
      [NoArgs EXCEPT !.minLevel = <<"DEBUG">>],
      [NoArgs EXCEPT !.compact = TRUE],
      [NoArgs EXCEPT !.component = <<c_db>>],
      [NoArgs EXCEPT !.version = TRUE],
      [NoArgs EXCEPT !.generateConfig = TRUE],
      WithConfig }

MainFiles ==
    {NoFile, Malformed, Unreadable, DocBadError, DocBadSlow, DocBadSuspicious, DocHighThreshold}

Init ==
    \E a \in MainArgs : \E f \in (IF a.config THEN MainFiles ELSE {NoFile}) :
    \E in \in SeqsUpTo(MainLines, MaxLines) : \E err \in BOOLEAN :
        Start(a, f, in, err)

Next ==
    \/ ParseCLIStep
    \/ HandleSpecialCommands
    \/ LoadConfigStep
    \/ ApplyToConfigStep
    \/ NewDetectorStep
    \/ ScanLine
    \/ Show
    \/ ScanEOF
    \/ ScanError

Spec == Init /\ [][Next]_vars

\* C3: anomalyCount is the number of processed lines whose Score reached the
\* threshold; a line flagged by a pattern alone, below the threshold, is not counted
C3_AnomalyCount ==
    d.anomalyCount =
        Cardinality({i \in 1..Len(entries) : entries[i].Score >= cfg.AnomalyThreshold})

\* two lines processed, one above the threshold, one flagged by a pattern alone
C3_Witness ==
    /\ Len(entries) = 2
    /\ entries[1].Score >= cfg.AnomalyThreshold
    /\ entries[2].IsAnomaly
    /\ entries[2].Score < cfg.AnomalyThreshold
    /\ d.anomalyCount = 1

\* C9: with --all, without --anomalies-only and component filters, every
\* input line is printed, DEBUG and INFO lines that are no anomalies too
C9_AllPrintsEveryLine ==
    ( /\ pc \in {"scan", "done"}
      /\ opts.ShowAll
      /\ ~opts.OnlyAnomalies
      /\ cfg.IncludeComponents = <<>>
      /\ cfg.ExcludeComponents = <<>> )
    => Len(printed) = Len(entries)

\* a configured pattern does not compile
CompileFails ==
    \E list \in {cfg.ErrorPatterns, cfg.SlowPatterns, cfg.SuspiciousPatterns} :
        \E i \in 1..Len(list) : list[i].kind = "bad"

\* C10: when one configured pattern fails to compile the detector runs with
\* all three pattern sets empty: every Score is the level-base contribution,
\* IsAnomaly is the threshold comparison, and the run reads all its input and
\* ends as it would have (exit 1 only for a read error)
C10_CompileFailureDegrades ==
    (CompileFails /\ pc \in {"scan", "show", "done"}) =>
        /\ d.errorPatterns = <<>> /\ d.slowPatterns = <<>> /\ d.suspiciousIPs = <<>>
        /\ warned
        /\ \A i \in 1..Len(entries) :
              /\ entries[i].Score = LevelBase(entries[i].Level)
              /\ entries[i].IsAnomaly = (entries[i].Score >= cfg.AnomalyThreshold)
        /\ pc = "done" => (stdin = <<>> /\ exitCode = IF stdinErr THEN 1 ELSE 0)

\* a run that ends normally after a failed compilation: a line the patterns of
\* the other categories would have matched has only its level score
C10_Witness ==
    /\ CompileFails
    /\ cfg.SlowPatterns = <<BadPattern>>
    /\ pc = "done"
    /\ exitCode = 0
    /\ Len(entries) = 2
    /\ entries[1].Raw = ln_error_db /\ entries[1].Score = 50 /\ entries[1].IsAnomaly
    /\ entries[2].Raw = ln_info_failed /\ entries[2].Score = 0 /\ ~entries[2].IsAnomaly

\* the run ended after the input loop: no special command, no configuration error
LoopEnded ==
    /\ pc = "done"
    /\ ~opts.Version
    /\ ~opts.GenerateConfig
    /\ ~(opts.ConfigFile /\ LoadConfig(file).err)

\* the entry with this index passes the display policy of the loop body
Displayed(i) ==
    /\ ShouldShow(cfg, entries[i])
    /\ IF opts.OnlyAnomalies THEN entries[i].IsAnomaly
       ELSE entries[i].IsAnomaly \/ entries[i].Level >= WARN

\* C11: when the input loop ends, at end of input or on a read error, every
\* line read was classified and, where the policy lets it through, printed,
\* the statistics were written unless the output is compact, and the exit
\* status is 1 after a read error and 0 after end of input
C11_StatsFlushedBeforeExit ==
    LoopEnded =>
        /\ stdin = <<>>
        /\ d.lineCount = Len(entries)
        /\ {printed[k].n : k \in 1..Len(printed)} = {i \in 1..Len(entries) : Displayed(i)}
        /\ (stats # <<>>) = ~cfg.CompactOutput
        /\ exitCode = IF stdinErr THEN 1 ELSE 0

\* C12: with --config naming a file that is no valid JSON the run ends with
\* exit status 1 before a detector exists and before a line is read or
\* classified; with --config naming a file that does not exist LoadConfig gives
\* the default Config without an error and the run goes through its input
C12_ConfigLoadErrors ==
    /\ (opts.ConfigFile /\ file.state = "malformed") =>
          /\ pc \in {"special", "load", "done"}
          /\ d = NoDetector /\ ~warned
          /\ entries = <<>> /\ printed = <<>> /\ stats = <<>>
          /\ pc = "done" => exitCode = 1
    /\ (opts.ConfigFile /\ file.state = "missing") =>
          /\ LoadConfig(file) = [cfg |-> DefaultConfig, err |-> FALSE]
          /\ pc = "apply" => cfg = DefaultConfig
          /\ pc \in {"scan", "show", "done"} => d.errorPatterns # <<>>
          /\ pc = "done" =>
                (stdin = <<>> /\ d.lineCount = Len(entries)
                    /\ exitCode = IF stdinErr THEN 1 ELSE 0)

\* a run stopped by a malformed configuration file with its input unread
C12_Witness ==
    /\ opts.ConfigFile
    /\ file.state = "malformed"
    /\ pc = "done"
    /\ exitCode = 1
    /\ Len(stdin) = MaxLines
    /\ d = NoDetector

\* what a call returns that the claims compare: Level, Score and IsAnomaly
Classification(e) == <<e.Level, e.Score, e.IsAnomaly>>

\* C13: the classification of a line does not depend on the lines processed
\* before it or on the counters: two calls on the same line return the same
\* Level, Score and IsAnomaly, and every call, when it returns, has returned
\* what the first call of a detector of this configuration returns on that line
C13_Stateless ==
    /\ \A i, j \in 1..Len(entries) :
          entries[i].Raw = entries[j].Raw =>
              Classification(entries[i]) = Classification(entries[j])
    /\ pc = "show" =>
          Classification(entry) =
              Classification(ParseLine(NewDetectorWithConfig(cfg), cfg, entry.Raw).entry)

\* a line below the threshold classified after a line that raised every
\* counter, and the same one classified as the first line of its run
C13_Witness ==
    /\ Len(entries) = 2
    /\ entries[1].Raw = ln_error_db
    /\ d.anomalyCount = 1 /\ d.errorCount = 1 /\ d.lineCount = 2
    /\ entries[2].Raw = ln_info
    /\ Classification(entries[2]) = <<INFO, 0, FALSE>>

\* the number of ParseLine calls so far that returned one of these levels
CallsWithLevel(levels) ==
    Cardinality({i \in 1..Len(entries) : entries[i].Level \in levels})

\* the counters against the history of calls
CountersMatchCalls ==
    /\ d.lineCount = Len(entries)
    /\ d.errorCount = CallsWithLevel({ERROR, FATAL})
    /\ d.warnCount = CallsWithLevel({WARN})
    /\ d.errorCount + d.warnCount <= d.lineCount
    /\ d.anomalyCount <= d.lineCount

\* no step makes a counter smaller
CountersGrow ==
    /\ d'.lineCount >= d.lineCount
    /\ d'.errorCount >= d.errorCount
    /\ d'.warnCount >= d.warnCount
    /\ d'.anomalyCount >= d.anomalyCount

\* C14: lineCount is the number of ParseLine calls, errorCount the number of
\* lines classified ERROR or FATAL, warnCount the number classified WARN; no
\* counter ever decreases; errorCount + warnCount <= lineCount and
\* anomalyCount <= lineCount
C14_Counters == [](CountersMatchCalls) /\ [][CountersGrow]_vars

\* an ERROR line and a WARN line processed
C14_Witness ==
    /\ Len(entries) = 2
    /\ entries[1].Level = WARN
    /\ entries[2].Level = ERROR
    /\ d.lineCount = 2 /\ d.errorCount = 1 /\ d.warnCount = 1 /\ d.anomalyCount = 1

\* the entries the loop body has dealt with, and those of them it printed
Decided == IF pc = "show" THEN 1..(Len(entries) - 1) ELSE 1..Len(entries)
PrintedIndexes == {printed[k].n : k \in 1..Len(printed)}

====
